---- MODULE Spec2Model ----
(***************************************************************************)
(* camoufox/ip.py: the Proxy descriptor (parse_server, as_string,          *)
(* as_requests_proxy), the IP validators (valid_ipv4, valid_ipv6,          *)
(* validate_ip) and the memoized resolver public_ip.                       *)
(*                                                                         *)
(* A Python str is modelled as a sequence of one-character strings, so     *)
(* that the regular expressions, str.strip and the f-string concatenations *)
(* are computed character by character.                                    *)
(***************************************************************************)
EXTENDS Integers, Sequences, FiniteSets, TLC

VARIABLES
    \* ---- Proxy (a dataclass instance and the last method applied to it)
    server,      \* Proxy.server
    username,    \* Proxy.username
    password,    \* Proxy.password
    op,          \* which method was applied: "new", "parse_server", "as_string"
    out,         \* what that method returned or raised
    \* ---- public_ip and the lru_cache wrapped around it
    cache,       \* the lru_cache dictionary: key -> stored result or Missing
    pc,          \* per caller: "idle", or "get" (inside the for loop)
    arg,         \* per caller: the proxy argument of the call in progress
    idx,         \* per caller: position of the for loop in URLS
    attempts,    \* per caller: the requests.get calls made by the call in progress
    last,        \* the call that completed most recently, as its caller saw it
    ncalls,      \* calls started so far
    \* ---- the validators applied to one string
    address,     \* the string given to valid_ipv4, valid_ipv6 and validate_ip
    verdict,     \* what the three answered, once they were called
    \* ---- Camoufox and AsyncCamoufox context managers
    cm           \* per manager: where its with statement is, self.browser, what ran so far

vars == <<server, username, password, op, out, cache, pc, arg, idx, attempts, last, ncalls,
          address, verdict, cm>>

proxyVars == <<server, username, password, op, out>>

ipVars == <<cache, pc, arg, idx, attempts, last, ncalls>>

validateVars == <<address, verdict>>

cmVars == <<cm>>

----------------------------------------------------------------------------
(* Bounds *)

\* longest server string enumerated exhaustively
MaxServerLen == 6
\* calls of public_ip in one run
MaxCalls == 3

----------------------------------------------------------------------------
(* Characters and strings *)

NL == "\n"

Digits == {"0", "1", "2", "3", "4", "5", "6", "7", "8", "9"}

HexLetters == {"a", "b", "c", "d", "e", "f", "A", "B", "C", "D", "E", "F"}

Letters == HexLetters \cup {"g", "h", "i", "l", "m", "n", "o", "p", "r", "s", "t", "u", "w", "x"}

\* \w of the re module
WordChars == Letters \cup Digits \cup {"_"}

\* what str.strip() removes
Whitespace == {" ", NL, "\t", "\r"}

\* Python's None, where a str could stand as well
None == <<"None">>

Max(S) == CHOOSE x \in S : \A y \in S : y <= x

Min(S) == CHOOSE x \in S : \A y \in S : x <= y

\* s[i:j] with 1-based inclusive bounds
Slice(s, i, j) == SubSeq(s, i, j)

\* `$` without re.MULTILINE: the end of the string, or just before a final newline
AtEnd(s, i) == \/ i = Len(s) + 1
               \/ i = Len(s) /\ s[i] = NL

\* `.` without re.DOTALL
Dot(ch) == ch # NL

----------------------------------------------------------------------------
(* Proxy.parse_server *)

\* the literal :// at s[i..i+2]
SepAt(s, i) == /\ i + 2 <= Len(s)
               /\ s[i] = ":" /\ s[i + 1] = "/" /\ s[i + 2] = "/"

\* (?:\:(?P<port>\d+))?$ at position i: the set of last indices of the port,
\* with i - 1 standing for "the group did not take part"
TailEnds(s, i) ==
    {e \in i .. Len(s) :
        /\ s[i] = ":"
        /\ e >= i + 1
        /\ \A k \in (i + 1) .. e : s[k] \in Digits
        /\ AtEnd(s, e + 1)}
    \cup (IF AtEnd(s, i) THEN {i - 1} ELSE {})

\* ends of the candidates for (?P<url>.*?) when it starts at i
UrlEnds(s, i) ==
    {j \in (i - 1) .. Len(s) :
        /\ \A k \in i .. j : Dot(s[k])
        /\ TailEnds(s, j + 1) # {}}

\* lengths \w+ can take such that the rest of the pattern matches
SchemaLens(s) ==
    {n \in 1 .. Len(s) :
        /\ \A k \in 1 .. n : s[k] \in WordChars
        /\ SepAt(s, n + 1)
        /\ UrlEnds(s, n + 4) # {}}

InvalidProxy(msg) == [raised |-> "InvalidProxy", schema |-> <<>>, url |-> <<>>, port |-> None]

\* parse_server with re.search in place of the anchored match at the port:
\* no `$`, so anything may follow the (empty) url
parse_server_unanchored(s) ==
    IF \E n \in 1 .. Len(s) : (\A k \in 1 .. n : s[k] \in WordChars) /\ SepAt(s, n + 1)
    THEN LET n == Max({m \in 1 .. Len(s) :
                         (\A k \in 1 .. m : s[k] \in WordChars) /\ SepAt(s, m + 1)})
         IN  [raised |-> "", schema |-> Slice(s, 1, n), url |-> <<>>, port |-> None]
    ELSE InvalidProxy(s)

parse_server(s) ==
    IF SchemaLens(s) = {}
    THEN InvalidProxy(s)
    ELSE LET n == Max(SchemaLens(s))           \* \w+ is greedy
             j == Min(UrlEnds(s, n + 4))       \* .*? is lazy
             e == Max(TailEnds(s, j + 1))      \* the optional group and \d+ are greedy
         IN  [raised |-> "",
              schema |-> Slice(s, 1, n),
              url    |-> Slice(s, n + 4, j),
              port   |-> IF e >= j + 2 THEN Slice(s, j + 2, e) ELSE None]

----------------------------------------------------------------------------
(* Proxy.as_string and Proxy.as_requests_proxy *)

\* truth value of a str (or None) in an `if`
Truthy(s) == s # None /\ s # <<>>

Str(chars) == [raised |-> "", val |-> chars]

Raise(kind) == [raised |-> kind, val |-> <<>>]

\* as_string with the password separator written whenever there is a username
as_string_always_colon(srv, user, pw) ==
    LET p == parse_server(srv)
    IN  IF p.raised # ""
        THEN Raise(p.raised)
        ELSE Str(p.schema \o <<":", "/", "/">>
                 \o (IF Truthy(user) THEN user \o <<":">> \o pw ELSE <<>>)
                 \o <<"@">> \o p.url
                 \o (IF Truthy(p.port) THEN <<":">> \o p.port ELSE <<>>))

\* as_string with the password test beside the username test instead of
\* inside it
as_string_password_unnested(srv, user, pw) ==
    LET p == parse_server(srv)
    IN  IF p.raised # ""
        THEN Raise(p.raised)
        ELSE Str(p.schema \o <<":", "/", "/">>
                 \o (IF Truthy(user) THEN user ELSE <<>>)
                 \o (IF Truthy(pw) THEN <<":">> \o pw ELSE <<>>)
                 \o <<"@">> \o p.url
                 \o (IF Truthy(p.port) THEN <<":">> \o p.port ELSE <<>>))

as_string(srv, user, pw) ==
    LET p == parse_server(srv)
    IN  IF p.raised # ""
        THEN Raise(p.raised)                                  \* line 36 propagates
        ELSE Str(p.schema \o <<":", "/", "/">>                \* line 37
                 \o (IF Truthy(user)                          \* lines 38-41
                     THEN user \o (IF Truthy(pw) THEN <<":">> \o pw ELSE <<>>)
                     ELSE <<>>)
                 \o <<"@">> \o p.url                          \* line 43
                 \o (IF Truthy(p.port) THEN <<":">> \o p.port ELSE <<>>))

\* as_requests_proxy filling only the http entry
as_requests_proxy_http_only(proxy_string) == [http |-> proxy_string, https |-> None]

as_requests_proxy(proxy_string) == [http |-> proxy_string, https |-> proxy_string]

----------------------------------------------------------------------------
(* valid_ipv4, valid_ipv6, validate_ip *)

DecDigits == {"0", "1", "2", "3", "4", "5", "6", "7", "8", "9"}

HexDigits == DecDigits \cup HexLetters

\* last indices of a run of lo..hi characters of class cls starting at s[i]
\* (i - 1 is the empty run)
RunEnds(s, i, cls, lo, hi) ==
    {j \in (i - 1) .. Len(s) :
        /\ j - i + 1 >= lo
        /\ j - i + 1 <= hi
        /\ \A k \in i .. j : s[k] \in cls}

\* (?:[0-9]{1,3}\.){g-1}[0-9]{1,3}$ at position i
RECURSIVE V4From(_, _, _)
V4From(s, i, g) ==
    \E j \in RunEnds(s, i, DecDigits, 1, 3) :
        IF g = 1
        THEN AtEnd(s, j + 1)
        ELSE /\ j + 1 <= Len(s)
             /\ s[j + 1] = "."
             /\ V4From(s, j + 2, g - 1)

valid_ipv4(ip) == V4From(ip, 1, 4)

\* after g repetitions of ([0-9a-fA-F]{0,4}:), the rest of the pattern at position i
RECURSIVE V6From(_, _, _)
V6From(s, i, g) ==
    \/ /\ g >= 1
       /\ \E j \in RunEnds(s, i, HexDigits, 0, 4) : AtEnd(s, j + 1)
    \/ /\ g < 7
       /\ \E j \in RunEnds(s, i, HexDigits, 0, 4) :
              /\ j + 1 <= Len(s)
              /\ s[j + 1] = ":"
              /\ V6From(s, j + 2, g + 1)

valid_ipv6(ip) == V6From(ip, 1, 0)

\* validate_ip raising when one of the two validators rejects
validate_ip_either(ip) == IF ~valid_ipv4(ip) \/ ~valid_ipv6(ip) THEN "InvalidIP" ELSE ""

\* "" when validate_ip returns, else the exception it raises
validate_ip(ip) == IF ~valid_ipv4(ip) /\ ~valid_ipv6(ip) THEN "InvalidIP" ELSE ""

\* str.strip()
RECURSIVE strip(_)
strip(s) ==
    IF s = <<>> THEN s
    ELSE IF s[1] \in Whitespace THEN strip(Tail(s))
    ELSE IF s[Len(s)] \in Whitespace THEN strip(SubSeq(s, 1, Len(s) - 1))
    ELSE s

----------------------------------------------------------------------------
(* public_ip: the endpoints and what requests.get can answer *)

URLS == << "https://api.ipify.org",
           "https://checkip.amazonaws.com",
           "https://ipinfo.io/ip",
           "https://icanhazip.com",
           "https://ifconfig.co/ip",
           "https://ipecho.net/plain" >>

\* threads calling public_ip
Callers == {"t1", "t2"}

Ip4 == <<"8", ".", "8", ".", "8", ".", "8">>

Ip6 == <<":", ":", "1">>

Garbage == <<"<", "h", "t", "m", "l", ">">>

\* response bodies an endpoint may send
Bodies == {Ip4 \o <<NL>>, Ip6, Garbage}

\* status codes of the final response: success, a redirect status requests
\* does not follow (no Location header), client error, server error
Statuses == {200, 300, 404, 503}

\* requests.get raised a requests.RequestException (connection error, timeout, ...)
RequestFailed == [raised |-> "RequestException", status |-> 0, text |-> <<>>]

\* outcomes of one requests.get(url, proxies=..., timeout=5)
Outcomes == {RequestFailed} \cup [raised : {""}, status : Statuses, text : Bodies]

NoResp == [url |-> "", raised |-> "", status |-> 0, text |-> <<>>]

\* proxy arguments public_ip is called with: none, the empty string, a proxy URL
ProxyUrl == <<"h", ":", "/", "/", "u", "@", "h">>

ProxyArgs == {None, <<>>, ProxyUrl}

\* the arguments used where two threads call at once
SharedArgs == {None, ProxyUrl}

\* the cache dictionary has no entry for the key
Missing == <<"Missing">>

\* raise_for_status that lets server errors through
raise_for_status_4xx_only(r) == IF r.status \in 400 .. 499 THEN "HTTPError" ELSE ""

\* Response.raise_for_status(): HTTPError for 4xx and 5xx, nothing otherwise
raise_for_status(r) == IF r.status \in 400 .. 599 THEN "HTTPError" ELSE ""

\* public_ip raising at the first endpoint that fails
AfterFailure_give_up(i) == [idx |-> i, exc |-> "InvalidIP"]

\* public_ip raising after the last URL but one
AfterFailure_skip_last(i) ==
    IF i < Len(URLS) - 1
    THEN [idx |-> i + 1, exc |-> ""]
    ELSE [idx |-> i, exc |-> "InvalidIP"]

\* `except (requests.RequestException, InvalidIP): pass`, then the next URL of
\* the for loop, or `raise InvalidIP("Failed to get IP address")` after the last
AfterFailure(i) ==
    IF i < Len(URLS)
    THEN [idx |-> i + 1, exc |-> ""]
    ELSE [idx |-> i, exc |-> "InvalidIP"]

\* the body of the try block without validate_ip
TryUrl_unvalidated(r) ==
    IF r.raised # "" THEN Raise(r.raised)
    ELSE IF raise_for_status(r) # "" THEN Raise(raise_for_status(r))
    ELSE Str(r.text)

\* the body of the try block for the outcome r of requests.get
TryUrl(r) ==
    IF r.raised # "" THEN Raise(r.raised)                          \* line 89
    ELSE IF raise_for_status(r) # "" THEN Raise(raise_for_status(r))  \* line 94
    ELSE LET ip == strip(r.text)                                   \* line 95
         IN  IF validate_ip(ip) # "" THEN Raise(validate_ip(ip))   \* line 96
             ELSE Str(ip)                                          \* line 97

\* proxies= of requests.get: a set holding the dict, empty for proxies=None
ProxiesFor(proxy) == IF Truthy(proxy) THEN {as_requests_proxy(proxy)} ELSE {}

\* an endpoint fails: network error or timeout, HTTP error status, or a body
\* that is no IPv4 or IPv6 literal once trimmed
EndpointFails(r) ==
    \/ r.raised # ""
    \/ r.status \in 400 .. 599
    \/ ~(valid_ipv4(strip(r.text)) \/ valid_ipv6(strip(r.text)))

\* the HTTP status of the answer is outside 200..299
Not2xx(r) == r.raised = "" /\ r.status \notin 200 .. 299

----------------------------------------------------------------------------
(* functools.lru_cache(maxsize=None) around public_ip *)

\* a wrapper that looks nothing up
CacheLookup_never(cch, key) == Missing

\* cache_get(key, sentinel)
CacheLookup(cch, key) == cch[key]

\* a wrapper with one slot for all arguments
CacheStore_one_slot(cch, key, result) == [k \in DOMAIN cch |-> result]

\* cache[key] = result, after the wrapped function returned
CacheStore(cch, key, result) == [cch EXCEPT ![key] = result]

\* a wrapper that remembers a failed call as an empty result
CacheOnRaise_negative(cch, key) == [cch EXCEPT ![key] = <<>>]

\* the wrapped function raised: the exception passes through the wrapper
CacheOnRaise(cch, key) == cch

----------------------------------------------------------------------------
(* Values of the state outside the resolver, before anything ran *)

\* valid_ipv4, valid_ipv6 and validate_ip were not called
NoVerdict == [valid_ipv4 |-> "", valid_ipv6 |-> "", validate_ip |-> ""]

\* the two context manager classes, one instance of each
Managers == {"Camoufox", "AsyncCamoufox"}

\* __init__: self.browser = None (falsy), nothing entered, nothing called
NewManager == [pc |-> "new", use |-> "", browser |-> FALSE, ran |-> <<>>, exc |-> ""]

----------------------------------------------------------------------------
(* The resolver as a state machine: threads calling public_ip *)

\* a completed call: who called, with what, the requests it made, the response
\* it returned from (NoResp if none), and the value returned or exception raised
Completed(c, proxy, log, r, value, raised) ==
    [caller |-> c, arg |-> proxy, attempts |-> log, resp |-> r, ret |-> value, exc |-> raised]

NoCall == Completed("", None, <<>>, NoResp, None, "")

ProxyIdle ==
    /\ server = <<>> /\ username = <<>> /\ password = <<>>
    /\ op = "new" /\ out = Str(<<>>)

IpIdle ==
    /\ cache = [k \in ProxyArgs |-> Missing]
    /\ pc = [c \in Callers |-> "idle"]
    /\ arg = [c \in Callers |-> None]
    /\ idx = [c \in Callers |-> 0]
    /\ attempts = [c \in Callers |-> <<>>]
    /\ last = NoCall
    /\ ncalls = 0

\* no string was validated yet
ValidateIdle == address = <<>> /\ verdict = NoVerdict

\* the context managers were constructed and not entered
CmIdle == cm = [m \in Managers |-> NewManager]

Init == ProxyIdle /\ IpIdle /\ ValidateIdle /\ CmIdle

\* public_ip(proxy) is called: the wrapper looks the key up; a hit returns at
\* once, a miss enters the wrapped function at the first URL
Call(c, proxy) ==
    /\ pc[c] = "idle"
    /\ ncalls < MaxCalls
    /\ ncalls' = ncalls + 1
    /\ IF CacheLookup(cache, proxy) # Missing
       THEN /\ last' = Completed(c, proxy, <<>>, NoResp, CacheLookup(cache, proxy), "")
            /\ UNCHANGED <<pc, arg, idx, attempts>>
       ELSE /\ pc' = [pc EXCEPT ![c] = "get"]
            /\ arg' = [arg EXCEPT ![c] = proxy]
            /\ idx' = [idx EXCEPT ![c] = 1]
            /\ attempts' = [attempts EXCEPT ![c] = <<>>]
            /\ UNCHANGED last
    /\ UNCHANGED cache
    /\ UNCHANGED proxyVars
    /\ UNCHANGED <<validateVars, cmVars>>

\* one iteration of `for url in URLS`: requests.get answers r; the call
\* returns the trimmed body through the wrapper, which stores it, or the
\* exception is swallowed and the loop goes on, or the loop is over and the
\* call raises through the wrapper
Get(c, r) ==
    /\ pc[c] = "get"
    /\ LET url == URLS[idx[c]]
           t == TryUrl(r)
           log == Append(attempts[c],
                         [url |-> url, proxies |-> ProxiesFor(arg[c]),
                          fails |-> EndpointFails(r)])
           a == AfterFailure(idx[c])
           got == [url |-> url, raised |-> r.raised, status |-> r.status, text |-> r.text]
       IN  IF t.raised = ""
           THEN /\ last' = Completed(c, arg[c], log, got, t.val, "")
                /\ cache' = CacheStore(cache, arg[c], t.val)
                /\ pc' = [pc EXCEPT ![c] = "idle"]
                /\ idx' = [idx EXCEPT ![c] = 0]
                /\ arg' = [arg EXCEPT ![c] = None]
                /\ attempts' = [attempts EXCEPT ![c] = <<>>]
           ELSE IF a.exc = ""
           THEN /\ idx' = [idx EXCEPT ![c] = a.idx]
                /\ attempts' = [attempts EXCEPT ![c] = log]
                /\ UNCHANGED <<pc, arg, cache, last>>
           ELSE /\ last' = Completed(c, arg[c], log, NoResp, None, a.exc)
                /\ cache' = CacheOnRaise(cache, arg[c])
                /\ pc' = [pc EXCEPT ![c] = "idle"]
                /\ idx' = [idx EXCEPT ![c] = 0]
                /\ arg' = [arg EXCEPT ![c] = None]
                /\ attempts' = [attempts EXCEPT ![c] = <<>>]
    /\ UNCHANGED ncalls
    /\ UNCHANGED proxyVars
    /\ UNCHANGED <<validateVars, cmVars>>

Next ==
    \E c \in Callers :
        \/ \E proxy \in SharedArgs : Call(c, proxy)
        \/ \E r \in Outcomes : Get(c, r)

Spec == Init /\ [][Next]_vars

\* one thread alone: calls follow one another
NextSeq ==
    \/ \E proxy \in ProxyArgs : Call("t1", proxy)
    \/ \E r \in Outcomes : Get("t1", r)

SeqSpec == Init /\ [][NextSeq]_vars

----------------------------------------------------------------------------
(* The Proxy dataclass: every instance within the bounds, and its methods *)

\* a letter, a digit, the two separators and the line feed
ServerAlphabet == {"h", "8", ":", "/", NL}

Strings(alphabet, n) == UNION {[1 .. k -> alphabet] : k \in 0 .. n}

NotAUrl == <<"n", "o", "t", "-", "a", "-", "u", "r", "l">>

ExampleServers ==
    { NotAUrl,
      <<"h", ":", "/", "/", "h", ":", "8">>,
      <<"h", "t", "t", "p", ":", "/", "/", "h", ".", "c", ":", "8", "0">>,
      <<"h", ":", "/", "/", "8", ":", "h", ":", "8", NL>> }

Servers == Strings(ServerAlphabet, MaxServerLen) \cup ExampleServers

Usernames == {<<>>, <<"u">>}

Passwords == {<<>>, <<"w">>}

ProxyInit ==
    /\ server \in Servers
    /\ username \in Usernames
    /\ password \in Passwords
    /\ op = "new"
    /\ out = Str(<<>>)
    /\ IpIdle
    /\ ValidateIdle
    /\ CmIdle

\* Proxy.parse_server(self.server)
ParseServer ==
    /\ op = "new"
    /\ op' = "parse_server"
    /\ out' = LET p == parse_server(server)
              IN  [raised |-> p.raised, val |-> <<p.schema, p.url, p.port>>]
    /\ UNCHANGED <<server, username, password>>
    /\ UNCHANGED ipVars
    /\ UNCHANGED <<validateVars, cmVars>>

\* self.as_string()
AsString ==
    /\ op = "new"
    /\ op' = "as_string"
    /\ out' = as_string(server, username, password)
    /\ UNCHANGED <<server, username, password>>
    /\ UNCHANGED ipVars
    /\ UNCHANGED <<validateVars, cmVars>>

ProxyNext == ParseServer \/ AsString

ProxySpec == ProxyInit /\ [][ProxyNext]_vars

----------------------------------------------------------------------------
(* The context managers: Camoufox (sync_api.py) and AsyncCamoufox (async_api.py) *)

\* what a method did: the calls it made, in order, the value self.browser
\* has afterwards, and the exception it raised ("" when it returned)
Did(calls, browserAfter, exception) ==
    [ran |-> calls, browser |-> browserAfter, raised |-> exception]

\* Camoufox.__enter__: start Playwright, then launch the browser and keep
\* it in self.browser; either call may raise, and what raises passes through
Camoufox__enter__(browser, startOk, launchOk) ==
    IF ~startOk THEN Did(<<>>, browser, "Error")                        \* line 22
    ELSE IF ~launchOk THEN Did(<<"pw_enter">>, browser, "Error")        \* line 23
    ELSE Did(<<"pw_enter", "launch">>, TRUE, "")                       \* line 24

\* Camoufox.__exit__ leaving Playwright before closing the browser
Camoufox__exit__playwright_first(browser, closeOk, stopOk) ==
    IF ~stopOk THEN Did(<<"pw_exit">>, browser, "Error")
    ELSE IF browser /\ ~closeOk THEN Did(<<"pw_exit", "close">>, browser, "Error")
    ELSE Did(<<"pw_exit">> \o (IF browser THEN <<"close">> ELSE <<>>), browser, "")

\* Camoufox.__exit__: close the browser if there is one, then leave
\* Playwright; either call may raise, and what raises passes through
Camoufox__exit__(browser, closeOk, stopOk) ==
    IF browser /\ ~closeOk THEN Did(<<"close">>, browser, "Error")     \* lines 27-28
    ELSE LET closed == IF browser THEN <<"close">> ELSE <<>>
         IN  Did(closed \o <<"pw_exit">>, browser,                      \* line 29
                 IF stopOk THEN "" ELSE "Error")

\* AsyncCamoufox.__aenter__: the same calls, awaited
AsyncCamoufox__aenter__(browser, startOk, launchOk) ==
    IF ~startOk THEN Did(<<>>, browser, "Error")                        \* line 22
    ELSE IF ~launchOk THEN Did(<<"pw_enter">>, browser, "Error")        \* line 23
    ELSE Did(<<"pw_enter", "launch">>, TRUE, "")                       \* line 24

\* AsyncCamoufox.__aexit__: the same calls, awaited
AsyncCamoufox__aexit__(browser, closeOk, stopOk) ==
    IF browser /\ ~closeOk THEN Did(<<"close">>, browser, "Error")     \* lines 27-28
    ELSE LET closed == IF browser THEN <<"close">> ELSE <<>>
         IN  Did(closed \o <<"pw_exit">>, browser,                      \* line 29
                 IF stopOk THEN "" ELSE "Error")

\* how a manager is used: in a with statement, which calls the exit method
\* only after the enter method returned, or with the two methods called by
\* hand around a try/finally, which calls the exit method in any case
Uses == {"with", "try-finally"}

CmInit ==
    /\ CmIdle
    /\ ProxyIdle
    /\ IpIdle
    /\ ValidateIdle

\* the enter method of manager m is called
Enter(m, use, startOk, launchOk) ==
    /\ cm[m].pc = "new"
    /\ LET d == IF m = "Camoufox"
                THEN Camoufox__enter__(cm[m].browser, startOk, launchOk)
                ELSE AsyncCamoufox__aenter__(cm[m].browser, startOk, launchOk)
       IN  cm' = [cm EXCEPT ![m] =
                     [pc |-> IF d.raised = "" THEN "body"
                             ELSE IF use = "with" THEN "over" ELSE "finally",
                      use |-> use,
                      browser |-> d.browser,
                      ran |-> cm[m].ran \o d.ran,
                      exc |-> d.raised]]
    /\ UNCHANGED <<proxyVars, ipVars, validateVars>>

\* the block under the manager runs to its end or raises
Body(m, bodyOk) ==
    /\ cm[m].pc = "body"
    /\ cm' = [cm EXCEPT ![m].pc = "finally",
                         ![m].exc = IF bodyOk THEN "" ELSE "BodyError"]
    /\ UNCHANGED <<proxyVars, ipVars, validateVars>>

\* the exit method of manager m is called; it returns None, so an exception
\* of the block goes on, unless the method raises one of its own
Exit(m, closeOk, stopOk) ==
    /\ cm[m].pc = "finally"
    /\ LET d == IF m = "Camoufox"
                THEN Camoufox__exit__(cm[m].browser, closeOk, stopOk)
                ELSE AsyncCamoufox__aexit__(cm[m].browser, closeOk, stopOk)
       IN  cm' = [cm EXCEPT ![m].pc = "over",
                            ![m].browser = d.browser,
                            ![m].ran = cm[m].ran \o d.ran,
                            ![m].exc = IF d.raised # "" THEN d.raised ELSE cm[m].exc]
    /\ UNCHANGED <<proxyVars, ipVars, validateVars>>

CmNext ==
    \E m \in Managers :
        \/ \E use \in Uses, startOk, launchOk \in BOOLEAN : Enter(m, use, startOk, launchOk)
        \/ \E bodyOk \in BOOLEAN : Body(m, bodyOk)
        \/ \E closeOk, stopOk \in BOOLEAN : Exit(m, closeOk, stopOk)

CmSpec == CmInit /\ [][CmNext]_vars

----------------------------------------------------------------------------
(* The validators applied to strings *)

\* longest string enumerated over AddressAlphabet
MaxAddressLen == 7

\* a digit, the two separators and the line feed
AddressAlphabet == {"9", ".", ":", NL}

\* "192.168.1.1"
InRange == <<"1", "9", "2", ".", "1", "6", "8", ".", "1", ".", "1">>

\* "192.168.1.999"
OutOfRange == <<"1", "9", "2", ".", "1", "6", "8", ".", "1", ".", "9", "9", "9">>

\* "::1"
Loopback6 == <<":", ":", "1">>

\* longer or other-lettered strings than the enumeration reaches:
\* "9.9.9.9\n", "9.9.9.9999", "9999.9.9.9", "1.2.3.4.5", "fe80::a", "g::1"
ExampleAddresses ==
    {InRange, OutOfRange, Loopback6,
     <<"9", ".", "9", ".", "9", ".", "9", NL>>,
     <<"9", ".", "9", ".", "9", ".", "9", "9", "9", "9">>,
     <<"9", "9", "9", "9", ".", "9", ".", "9", ".", "9">>,
     <<"1", ".", "2", ".", "3", ".", "4", ".", "5">>,
     <<"f", "e", "8", "0", ":", ":", "a">>,
     <<"g", ":", ":", "1">>}

Addresses == Strings(AddressAlphabet, MaxAddressLen) \cup ExampleAddresses

\* Python's bool as text
Bool(b) == IF b THEN "True" ELSE "False"

ValidateInit ==
    /\ address \in Addresses
    /\ verdict = NoVerdict
    /\ server = <<>> /\ username = <<>> /\ password = <<>>
    /\ op = "new"
    /\ out = Str(<<>>)
    /\ IpIdle
    /\ CmIdle

\* valid_ipv4(address)
ValidIpv4 ==
    /\ verdict.valid_ipv4 = ""
    /\ verdict' = [verdict EXCEPT !.valid_ipv4 = Bool(valid_ipv4(address))]
    /\ UNCHANGED address
    /\ UNCHANGED <<proxyVars, ipVars, cmVars>>

\* valid_ipv6(address)
ValidIpv6 ==
    /\ verdict.valid_ipv6 = ""
    /\ verdict' = [verdict EXCEPT !.valid_ipv6 = Bool(valid_ipv6(address))]
    /\ UNCHANGED address
    /\ UNCHANGED <<proxyVars, ipVars, cmVars>>

\* validate_ip(address): returns None or raises InvalidIP
ValidateIp ==
    /\ verdict.validate_ip = ""
    /\ verdict' = [verdict EXCEPT !.validate_ip =
                      IF validate_ip(address) = "" THEN "None" ELSE validate_ip(address)]
    /\ UNCHANGED address
    /\ UNCHANGED <<proxyVars, ipVars, cmVars>>

ValidateNext == ValidIpv4 \/ ValidIpv6 \/ ValidateIp

ValidateSpec == ValidateInit /\ [][ValidateNext]_vars

----------------------------------------------------------------------------
(* Properties of public_ip *)

\* a completed call that went to the network (its key was not in the cache)
Fresh == last.caller # "" /\ last.attempts # <<>>

\* the requests of a log went to URLS[1], URLS[2], ... in that order
InListedOrder(log) == \A i \in 1 .. Len(log) : i <= Len(URLS) /\ log[i].url = URLS[i]

\* v is an IPv4 or IPv6 literal with no surrounding whitespace
Validated(v) ==
    /\ valid_ipv4(v) \/ valid_ipv6(v)
    /\ v # <<>> /\ v[1] \notin Whitespace /\ v[Len(v)] \notin Whitespace

\* C1, as stated: a call on an uncached key that returns a value made its
\* requests in the listed order, every endpoint before the last one failed,
\* and the last one did not fail in any of the listed ways (network error,
\* timeout, non-2xx status, invalid body): the value is its trimmed body.
C1_FallbackAnyNon2xxFails ==
    Fresh /\ last.ret # None =>
        LET k == Len(last.attempts)
        IN  /\ InListedOrder(last.attempts)
            /\ \A i \in 1 .. (k - 1) : last.attempts[i].fails
            /\ last.resp.url = URLS[k]
            /\ ~EndpointFails(last.resp)
            /\ ~Not2xx(last.resp)
            /\ last.ret = strip(last.resp.text)

\* C1, amended: the same, where a status fails an endpoint only if it is an
\* HTTP error status (4xx or 5xx). While a call is in the loop every endpoint
\* it tried has failed, so the first endpoint that does not fail ends the call:
\* k attempts, in the listed order, none after the k-th, its trimmed body
\* returned.
C1_OrderedFallback ==
    /\ Fresh /\ last.ret # None =>
        LET k == Len(last.attempts)
        IN  /\ InListedOrder(last.attempts)
            /\ \A i \in 1 .. (k - 1) : last.attempts[i].fails
            /\ ~last.attempts[k].fails
            /\ last.resp.url = URLS[k]
            /\ ~EndpointFails(last.resp)
            /\ last.ret = strip(last.resp.text)
    /\ \A c \in Callers :
        pc[c] = "get" =>
            /\ Len(attempts[c]) = idx[c] - 1
            /\ InListedOrder(attempts[c])
            /\ \A i \in 1 .. Len(attempts[c]) : attempts[c][i].fails

\* C1 witness: the first five endpoints failed and the sixth answered 8.8.8.8
C1_SixthEndpointAnswers ==
    /\ Fresh /\ last.arg = None /\ last.ret = Ip4
    /\ Len(last.attempts) = 6
    /\ last.resp.url = "https://ipecho.net/plain"

\* C2: in a sequence of calls, a call with the argument of the call before it,
\* which returned a value, does not enter the loop (no request is made) and
\* returns that same value.
C2_Memoization ==
    [][ (ncalls' = ncalls + 1 /\ last.caller # "" /\ last.ret # None) =>
            /\ pc'["t1"] = "get" => arg'["t1"] # last.arg
            /\ (pc'["t1"] = "idle" /\ last'.arg = last.arg) =>
                   /\ last'.attempts = <<>>
                   /\ attempts'["t1"] = <<>>
                   /\ last'.ret = last.ret ]_vars

\* C2 witness: the second of two calls with no proxy was served from the cache
C2_SecondCallServedFromCache ==
    /\ ncalls = 2 /\ last.arg = None /\ last.attempts = <<>> /\ last.ret = Ip4
    /\ cache[<<>>] = Missing /\ cache[ProxyUrl] = Missing

\* the exception validate_ip raises for one endpoint's body
PerEndpointInvalid == validate_ip(Garbage)

\* a call raised after all six endpoints failed, returning nothing
Exhausted ==
    /\ Len(last.attempts) = Len(URLS)
    /\ InListedOrder(last.attempts)
    /\ \A i \in 1 .. Len(last.attempts) : last.attempts[i].fails
    /\ last.ret = None

C5_CacheStability ==
    [][ \A k \in ProxyArgs :
            cache[k] # Missing =>
                /\ cache'[k] = cache[k]
                /\ (last' # last /\ last'.arg = k) => last'.ret = cache[k] ]_vars

\* C6: for each key at most one write takes effect (an entry changes only from
\* missing to a value), and what the cache holds is a validated IP.
C6_AtMostOneEffectiveWrite ==
    [][ /\ \A k \in ProxyArgs : cache'[k] # cache[k] => cache[k] = Missing
        /\ \A k \in ProxyArgs : cache'[k] # Missing => Validated(cache'[k]) ]_vars

\* C7: the cache changes only in a step in which a call returns a value it
\* fetched, and then only at that call's key; a call that raises leaves every
\* entry as it was. A call that follows a failed call with the same key and
\* finds no entry starts at the first endpoint, and no call raises at the
\* lookup.
C7_CacheWrittenOnSuccessOnly ==
    [][ /\ cache' # cache =>
            /\ last' # last /\ last'.ret # None /\ last'.attempts # <<>>
            /\ cache' = [cache EXCEPT ![last'.arg] = last'.ret]
        /\ (last' # last /\ last'.exc # "") => cache' = cache
        /\ \A c \in Callers :
            (pc[c] = "idle" /\ pc'[c] = "get" /\ last.exc # "" /\ arg'[c] = last.arg) =>
                idx'[c] = 1 /\ attempts'[c] = <<>>
        /\ (ncalls' = ncalls + 1 /\ last' # last) => last'.exc = "" /\ last'.ret # None ]_vars

\* C7 witness: after a call failed, a call with the same key is at the first
\* endpoint again and the cache is still empty
C7_RetryAfterFailure ==
    /\ last.exc = "InvalidIP"
    /\ \A k \in ProxyArgs : cache[k] = Missing
    /\ \E c \in Callers : pc[c] = "get" /\ idx[c] = 1 /\ arg[c] = last.arg /\ c = last.caller

\* C8: a completed call either returned a validated, trimmed IP and raised
\* nothing, or raised and returned nothing; a fetched value is the trimmed
\* body of the response, and everything the cache can serve is validated.
C8_OnlyValidatedResults ==
    /\ last.caller # "" =>
           \/ last.exc = "" /\ last.ret # None /\ Validated(last.ret)
           \/ last.exc # "" /\ last.ret = None
    /\ (Fresh /\ last.ret # None) =>
           last.ret = strip(last.resp.text) /\ validate_ip(last.ret) = ""
    /\ \A k \in ProxyArgs : cache[k] # Missing => Validated(cache[k])

\* C8 witness: an untrimmed body "8.8.8.8\n" was fetched and returned trimmed
C8_TrimmedBodyReturned ==
    Fresh /\ last.resp.text = Ip4 \o <<NL>> /\ last.ret = Ip4 /\ last.resp.status = 200

----------------------------------------------------------------------------
(* Properties of Proxy *)

\* no call of public_ip was made and no request sent
NoNetworkActivity ==
    /\ ncalls = 0 /\ last = NoCall
    /\ \A c \in Callers : pc[c] = "idle" /\ attempts[c] = <<>>
    /\ \A k \in ProxyArgs : cache[k] = Missing

\* s is scheme "://" host [":" port] with a scheme of one or more word
\* characters, a host of characters from hostChars, a port of one or more
\* digits, and then one of the sequences in ends
MatchesGrammar(s, hostChars, ends) ==
    \E n \in 1 .. Len(s) :
        /\ \A k \in 1 .. n : s[k] \in WordChars
        /\ n + 3 <= Len(s)
        /\ SubSeq(s, n + 1, n + 3) = <<":", "/", "/">>
        /\ \E j \in (n + 3) .. Len(s) :
            /\ \A k \in (n + 4) .. j : s[k] \in hostChars
            /\ \E e \in j .. Len(s) :
                /\ e > j => s[j + 1] = ":" /\ e >= j + 2
                /\ \A k \in (j + 2) .. e : s[k] \in Digits
                /\ SubSeq(s, e + 1, Len(s)) \in ends

AnyChar == WordChars \cup {":", "/", "@", ".", "-", NL, " "}

\* scheme://host[:port], the host being any characters
MatchesSchemeHostPort(s) == MatchesGrammar(s, AnyChar, {<<>>})

\* scheme://host[:port] on one line: no line feed in the host, and one line
\* feed may follow
MatchesOnOneLine(s) == MatchesGrammar(s, AnyChar \ {NL}, {<<>>, <<NL>>})

\* s is scheme://host:port with a host and a port, and nothing else
IsSchemeHostPort(s) ==
    /\ MatchesGrammar(s, AnyChar \ {NL, ":", "/"}, {<<>>})
    /\ \E j \in 1 .. (Len(s) - 1) :
        /\ s[j] \notin {":", "/"}
        /\ s[j + 1] = ":"
        /\ \A k \in (j + 2) .. Len(s) : s[k] \in Digits
        /\ j + 2 <= Len(s)

\* C4: for a server string scheme://host:port and no credentials, as_string
\* gives back the server string, character for character.
C4_RoundTripWithoutCredentials ==
    (op = "as_string" /\ username = <<>> /\ password = <<>> /\ IsSchemeHostPort(server))
        => out = Str(server)

\* C9: with a username and an empty password (and a server string that
\* parses), as_string is scheme://username@host[:port]: the username is
\* followed at once by "@", with no ":" between them.
C9_UsernameWithEmptyPassword ==
    (op = "as_string" /\ username # <<>> /\ password = <<>> /\ out.raised = "") =>
        LET p == parse_server(server)
            n == Len(p.schema) + 3 + Len(username)
        IN  /\ out.val = p.schema \o <<":", "/", "/">> \o username \o <<"@">> \o p.url
                         \o (IF p.port = None THEN <<>> ELSE <<":">> \o p.port)
            /\ SubSeq(out.val, Len(p.schema) + 4, n) = username
            /\ out.val[n + 1] = "@"

\* C9 witness: server h://h:8 with username u and no password
C9_UsernameOnlyUrl ==
    /\ op = "as_string" /\ username = <<"u">> /\ password = <<>>
    /\ server = <<"h", ":", "/", "/", "h", ":", "8">>
    /\ out = Str(<<"h", ":", "/", "/", "u", "@", "h", ":", "8">>)

\* C10, as stated: parse_server raises exactly for the strings that do not
\* match scheme://host[:port], the host being any characters; as_string on
\* such a server string raises the same error, gives no URL, and nothing
\* touches the network.
C10_ParseFailsOffGrammar ==
    /\ op = "parse_server" =>
           (out.raised = "InvalidProxy" <=> ~MatchesSchemeHostPort(server))
    /\ op = "as_string" =>
           (out.raised = "InvalidProxy" <=> ~MatchesSchemeHostPort(server))
    /\ out.raised # "" => out.raised = "InvalidProxy" /\ (op = "as_string" => out.val = <<>>)
    /\ NoNetworkActivity

\* C10, amended: the same for scheme://host[:port] on one line: the host is
\* any characters but a line feed, and a single line feed may end the string.
C10_ParseFailsOffOneLineGrammar ==
    /\ op = "parse_server" =>
           (out.raised = "InvalidProxy" <=> ~MatchesOnOneLine(server))
    /\ op = "as_string" =>
           (out.raised = "InvalidProxy" <=> ~MatchesOnOneLine(server))
    /\ out.raised # "" => out.raised = "InvalidProxy" /\ (op = "as_string" => out.val = <<>>)
    /\ NoNetworkActivity

\* C10 witness: as_string of a Proxy whose server is "not-a-url" raised
C10_NotAUrlRaises ==
    op = "as_string" /\ server = NotAUrl /\ out = Raise("InvalidProxy")

----------------------------------------------------------------------------
(* C11: which credentials as_string puts in the URL *)

\* sub occurs in s as a contiguous piece
Contains(s, sub) ==
    \E i \in 1 .. Len(s) - Len(sub) + 1 : SubSeq(s, i, i + Len(sub) - 1) = sub

\* the characters credentials are written with; no server string that
\* parses holds any of them
CredentialChars == UNION {{u[i] : i \in 1 .. Len(u)} : u \in Usernames \cup Passwords}

\* C11: in the URL as_string returns, the username appears only when it is
\* not empty, and the password, with the colon before it, appears only when
\* both the username and the password are not empty; with an empty username
\* and a password, no character of the password is in the URL.
C11_CredentialInclusion ==
    (op = "as_string" /\ out.raised = "") =>
        LET url == out.val
            after == Len(parse_server(server).schema) + 4
            credentials == IF ~Truthy(username) THEN <<>>
                           ELSE IF ~Truthy(password) THEN username
                           ELSE username \o <<":">> \o password
        IN  /\ SubSeq(url, after, after + Len(credentials)) = credentials \o <<"@">>
            /\ (\E i \in 1 .. Len(url) : url[i] \in CredentialChars) => Truthy(username)
            /\ (Truthy(password) /\ Contains(url, <<":">> \o password \o <<"@">>))
                   => Truthy(username)
            /\ (Truthy(username) /\ Truthy(password))
                   => Contains(url, username \o <<":">> \o password \o <<"@">>)
            /\ (~Truthy(username) /\ Truthy(password)) => ~Contains(url, password)

\* C11 witness: server h://h:8 with a password and no username gives a URL
\* without the password
C11_PasswordWithoutUsername ==
    /\ op = "as_string"
    /\ server = <<"h", ":", "/", "/", "h", ":", "8">>
    /\ username = <<>>
    /\ password = <<"w">>
    /\ out = Str(<<"h", ":", "/", "/", "@", "h", ":", "8">>)

----------------------------------------------------------------------------
(* C12: what the validators accept *)

\* s is four groups of 1 to 3 decimal digits with a dot between groups
IsDottedQuad(s) ==
    \E a, b, c \in 1 .. Len(s) :
        /\ a < b /\ b < c
        /\ s[a] = "." /\ s[b] = "." /\ s[c] = "."
        /\ \A g \in {<<1, a - 1>>, <<a + 1, b - 1>>, <<b + 1, c - 1>>, <<c + 1, Len(s)>>} :
               /\ g[2] - g[1] + 1 \in 1 .. 3
               /\ \A k \in g[1] .. g[2] : s[k] \in DecDigits

\* the same, or the same followed by one line feed
IsDottedQuadLine(s) ==
    \/ IsDottedQuad(s)
    \/ /\ s # <<>>
       /\ s[Len(s)] = NL
       /\ IsDottedQuad(SubSeq(s, 1, Len(s) - 1))

\* the claim, for a given reading of "four dot-separated groups"
ValidationGrammar(quad(_)) ==
    /\ verdict.valid_ipv4 # "" => verdict.valid_ipv4 = Bool(quad(address))
    /\ (verdict.valid_ipv4 # "" /\ verdict.valid_ipv6 # "" /\ verdict.validate_ip # "") =>
           (verdict.validate_ip = "InvalidIP"
               <=> (verdict.valid_ipv4 = "False" /\ verdict.valid_ipv6 = "False"))
    /\ (address \in {InRange, OutOfRange} /\ verdict.valid_ipv4 # "")
           => verdict.valid_ipv4 = "True"
    /\ (address \in {InRange, OutOfRange} /\ verdict.validate_ip # "")
           => verdict.validate_ip = "None"
    /\ (address = Loopback6 /\ verdict.valid_ipv4 # "") => verdict.valid_ipv4 = "False"
    /\ (address = Loopback6 /\ verdict.valid_ipv6 # "") => verdict.valid_ipv6 = "True"
    /\ (address = Loopback6 /\ verdict.validate_ip # "") => verdict.validate_ip = "None"

\* C12 as stated: validate_ip raises InvalidIP exactly when valid_ipv4 and
\* valid_ipv6 both reject; valid_ipv4 accepts exactly the strings of four
\* dot-separated groups of 1 to 3 decimal digits, with no range check
\* ("192.168.1.1" and "192.168.1.999" accepted, "::1" rejected); valid_ipv6
\* accepts "::1".
C12_ValidationGrammarExact == ValidationGrammar(IsDottedQuad)

\* C12 amended: the same, where valid_ipv4 accepts exactly the strings of
\* four dot-separated groups of 1 to 3 decimal digits and those strings
\* followed by one line feed.
C12_ValidationGrammar == ValidationGrammar(IsDottedQuadLine)

\* C12 witness: "192.168.1.999" went through the three functions, was
\* accepted by valid_ipv4, rejected by valid_ipv6, and validate_ip returned
C12_OutOfRangeAccepted ==
    /\ address = OutOfRange
    /\ verdict = [valid_ipv4 |-> "True", valid_ipv6 |-> "False", validate_ip |-> "None"]

----------------------------------------------------------------------------
(* C13: bounded, sequential attempts *)

\* a log names no endpoint twice
EachEndpointOnce(log) ==
    \A i, j \in 1 .. Len(log) : i # j => log[i].url # log[j].url

\* what holds of every call under way and of every completed call
BoundedAttempts ==
    /\ \A c \in Callers :
           pc[c] = "get" =>
               /\ idx[c] \in 1 .. Len(URLS)
               /\ Len(attempts[c]) = idx[c] - 1
               /\ Len(attempts[c]) < Len(URLS)
               /\ EachEndpointOnce(attempts[c])
               /\ \A i \in 1 .. Len(attempts[c]) : attempts[c][i].fails
    /\ Len(last.attempts) <= Len(URLS)
    /\ EachEndpointOnce(last.attempts)
    /\ \A i \in 1 .. Len(last.attempts) - 1 : last.attempts[i].fails
    /\ last.exc # "" => /\ Len(last.attempts) = Len(URLS)
                        /\ \A u \in {URLS[i] : i \in 1 .. Len(URLS)} :
                               \E i \in 1 .. Len(last.attempts) : last.attempts[i].url = u

\* a call makes its requests one after the other: a step of a call that goes
\* on adds one request to its log, made after the ones before it were answered
OneAtATime ==
    \A c \in Callers :
        (pc[c] = "get" /\ attempts'[c] # attempts[c]) =>
            \/ pc'[c] = "idle" /\ attempts'[c] = <<>>
            \/ /\ Len(attempts'[c]) = Len(attempts[c]) + 1
               /\ SubSeq(attempts'[c], 1, Len(attempts[c])) = attempts[c]

\* a call under way is never stuck: whatever requests.get does within its
\* timeout, the iteration can complete
CanProceed ==
    \A c \in Callers : pc[c] = "get" => ENABLED (\E r \in Outcomes : Get(c, r))

\* every step of a call under way ends the call or moves it to the next
\* endpoint, of which there are Len(URLS)
StepsTowardsTheEnd ==
    \A c \in Callers :
        (pc[c] = "get" /\ <<pc'[c], idx'[c], attempts'[c]>> # <<pc[c], idx[c], attempts[c]>>) =>
            \/ pc'[c] = "idle"
            \/ pc'[c] = "get" /\ idx'[c] = idx[c] + 1 /\ idx'[c] <= Len(URLS)

\* C13: every call of public_ip ends, with a value or an exception, after at
\* most six requests (a call under way can always take its next step, and
\* each step ends it or moves it one endpoint further down the six); a call
\* asks no endpoint twice and makes its requests one at a time; and a call
\* raises only when no untried endpoint is left.
C13_BoundedSequentialAttempts ==
    /\ []BoundedAttempts
    /\ []CanProceed
    /\ [][OneAtATime /\ StepsTowardsTheEnd]_vars

\* C13 witness: a call returned from the fourth endpoint after three
\* failures while the other thread is at its third endpoint
C13_FourthEndpointAfterThreeFailures ==
    /\ last.exc = "" /\ last.ret # None
    /\ Len(last.attempts) = 4
    /\ \E c \in Callers : pc[c] = "get" /\ idx[c] = 3 /\ last.caller # c

----------------------------------------------------------------------------
(* C14: the proxy map and its use by public_ip *)

\* every request of a log was made with the map of proxy_string, which has
\* the keys http and https and no other, both with proxy_string as value
RoutedThrough(log, proxy_string) ==
    \A i \in 1 .. Len(log) :
        /\ Cardinality(log[i].proxies) = 1
        /\ \A map \in log[i].proxies :
               /\ DOMAIN map = {"http", "https"}
               /\ map.http = proxy_string
               /\ map.https = proxy_string

\* every request of a log was made with proxies=None
Direct(log) == \A i \in 1 .. Len(log) : log[i].proxies = {}

\* the log is as the argument of the call asks; an empty string is no proxy
RoutedAsAsked(log, proxy) ==
    IF proxy = None \/ proxy = <<>> THEN Direct(log) ELSE RoutedThrough(log, proxy)

\* C14: the map as_requests_proxy makes has exactly the keys http and https,
\* both with the given URL as value, and every request of one call of
\* public_ip is made with that same map when the call was given a proxy
\* and with no proxy when it was given none.
C14_UniformProxyRouting ==
    /\ pc["t1"] = "get" => RoutedAsAsked(attempts["t1"], arg["t1"])
    /\ RoutedAsAsked(last.attempts, last.arg)

\* C14 witness: a call with a proxy made three requests, and a call without
\* one is under way with two requests made
C14_ThreeRequestsThroughTheProxy ==
    /\ last.arg = ProxyUrl
    /\ Len(last.attempts) = 3
    /\ pc["t1"] = "get" /\ arg["t1"] = None /\ Len(attempts["t1"]) = 2

----------------------------------------------------------------------------
(* C15: one cache entry per argument *)

\* a call served from the cache: it completed without a request
ServedFromCache == last.caller # "" /\ last.exc = "" /\ last.attempts = <<>>

\* a call served from the cache returns the entry of its own argument,
\* which is not empty
OwnEntryReturned ==
    ServedFromCache => /\ cache[last.arg] # Missing
                       /\ last.ret = cache[last.arg]

\* in one step, an entry changes only by the call that ran for its own
\* argument and made requests; a call is served from the cache only when
\* the entry of its own argument is filled, and otherwise starts at the
\* first endpoint, whatever the other entries hold
OwnEntryWritten ==
    /\ \A k \in ProxyArgs :
           cache'[k] # cache[k] =>
               /\ pc["t1"] = "get" /\ arg["t1"] = k
               /\ last'.arg = k /\ last'.attempts # <<>>
               /\ cache'[k] = last'.ret
               /\ \A other \in ProxyArgs \ {k} : cache'[other] = cache[other]
    /\ (pc["t1"] = "idle" /\ ncalls' # ncalls) =>
           \/ /\ pc'["t1"] = "get"
              /\ cache[arg'["t1"]] = Missing
              /\ idx'["t1"] = 1 /\ attempts'["t1"] = <<>>
              /\ last' = last
           \/ /\ pc'["t1"] = "idle"
              /\ cache[last'.arg] # Missing
              /\ last'.ret = cache[last'.arg]
              /\ last'.attempts = <<>>

\* C15: a value stored by a call of public_ip for one argument is never
\* returned to a call with another argument: a call served from the cache
\* gets the entry of its own argument, an entry is written only by a call
\* with that argument that made requests, and the first call for None, for
\* a proxy string and for another proxy string each make requests of their
\* own whatever is cached for the others.
C15_CacheKeyIsolation ==
    /\ []OwnEntryReturned
    /\ [][OwnEntryWritten]_vars

\* C15 witness: None and the proxy URL have different cached values, the
\* empty string has none, and the last call was served the proxy URL's value
C15_TwoKeysTwoValues ==
    /\ ServedFromCache
    /\ last.arg = ProxyUrl
    /\ last.ret = cache[ProxyUrl]
    /\ cache[None] # Missing
    /\ cache[None] # cache[ProxyUrl]
    /\ cache[<<>>] = Missing

----------------------------------------------------------------------------
(* C16, C17: what the context managers call, and in which order *)

\* positions of a call in what a manager ran
Positions(m, call) == {i \in 1 .. Len(cm[m].ran) : cm[m].ran[i] = call}

\* C16: when a manager exits after its enter method returned, the browser's
\* close is called before the exit of the Playwright manager runs; and close
\* is called only if a browser was launched.
C16_CloseBeforePlaywrightExit ==
    \A m \in Managers :
        /\ \A x \in Positions(m, "pw_exit") :
               Positions(m, "launch") # {} =>
                   \E c \in Positions(m, "close") :
                       /\ c < x
                       /\ \A l \in Positions(m, "launch") : l < c
        /\ \A c \in Positions(m, "close") : \E l \in Positions(m, "launch") : l < c
        /\ (cm[m].pc = "over" /\ Positions(m, "launch") # {}) => Positions(m, "close") # {}

\* C16 witness: Camoufox went through a with statement, launching, closing
\* and then leaving Playwright, and AsyncCamoufox, used by hand, failed to
\* launch and left Playwright without a close
C16_ClosedThenLeft ==
    /\ cm["Camoufox"].pc = "over" /\ cm["Camoufox"].use = "with"
    /\ cm["Camoufox"].ran = <<"pw_enter", "launch", "close", "pw_exit">>
    /\ cm["AsyncCamoufox"].pc = "over" /\ cm["AsyncCamoufox"].use = "try-finally"
    /\ cm["AsyncCamoufox"].ran = <<"pw_enter", "pw_exit">>

\* C17: for a manager used in a with statement, once its enter method has
\* started the Playwright manager, the Playwright manager's exit has run by
\* the time the with statement is over, also when the launch raised in the
\* enter method and when close raised in the exit method.
C17_PlaywrightCleanup ==
    \A m \in Managers :
        (cm[m].use = "with" /\ cm[m].pc = "over" /\ Positions(m, "pw_enter") # {})
            => Positions(m, "pw_exit") # {}

====
